---- MODULE Spec2Model ----
(***************************************************************************)
(* LibN64::LibMemPak (src/include/LibN64.h, lines 312-555): a directory of *)
(* MEMPAK_MAX_ENTRIES controller-pak notes cached in a std::vector, with   *)
(* the controller pak itself (the storage medium reached through the       *)
(* libdragon calls get_mempak_entry, write_mempak_entry_data, ...)         *)
(* modelled from the collaborator contract of spec.md section 6.           *)
(*                                                                         *)
(* A payload is a sequence of blocks (one token per MEMPAK_BLOCK_SIZE      *)
(* bytes); vector positions are 0-based in the source and 1-based here,    *)
(* so pakEntries.at(i) is pakEntries[i + 1].                               *)
(*                                                                         *)
(* LibN64::Frame (lines 650-950) and LibN64::LibMenu (lines 1357-1532)     *)
(* follow, each with a specification of its own: SpecFrame walks Begin()   *)
(* through its loop, SpecMenu makes the calls of a menu's member           *)
(* functions, and SpecManager those of a LibN64::LibMenuManager (lines     *)
(* 1534-1578) and of the menus it created.                                 *)
(***************************************************************************)
EXTENDS Integers, Sequences, FiniteSets, TLC

\* #define MEMPAK_MAX_ENTRIES 16
MEMPAK_MAX_ENTRIES == 16

\* Bound: number of calls made on a directory after its construction.
MaxCalls == 3

\* User blocks of a controller pak.
MEMPAK_TOTAL_BLOCKS == 123

Slots == 0 .. (MEMPAK_MAX_ENTRIES - 1)

\* Entry ids handed to DeleteMemPakEntry / WriteMemPakEntry: the first two
\* slots and the first index past the directory.
EntryIDs == {0, 1, MEMPAK_MAX_ENTRIES}

\* Entry ids handed to ReadMemPakEntry.
ReadIDs == {0, 1}

\* Payloads handed to the write calls: one block, and two blocks.
Payloads == {<<"a">>, <<"b", "c">>}

\* Entry file names the directory is constructed with.
FileNames == {"HELLO"}

\* Entry names handed to FindFirstEntryWith.
LookupNames == {"HELLO", "OLD"}

\* Values a call of an int function may yield when it flows off its end
\* without a return statement.
FallOffInts == {-1, 0, 16}

\* Values an int member left uninitialised by the constructor may hold
\* (0 for an object in static storage, anything otherwise).
UninitInts == {0, 5}

\* Sets of slots that hold a live note when the directory is constructed.
InitValidSets == {{}, {0}, {1}, Slots}

NoData == <<>>
\* What ReadMemPakEntry returns: nullptr, or a buffer holding blocks.
Null == [null |-> TRUE, blocks |-> <<>>]

Buffer(blocks) == [null |-> FALSE, blocks |-> blocks]

VARIABLES
    mempak,            \* the controller pak: [inserted, ok, notes, data]
    pakEntries,        \* std::vector<entry_structure_t> pakEntries
    pakValidEntries,   \* int pakValidEntries
    pakBlocksFree,     \* int pakBlocksFree
    pakFileName,       \* std::string pakFileName
    pakEntryData,      \* uint8_t *pakEntryData (buffer of the last read)
    calls,             \* number of calls made since construction
    last,              \* the call that just returned, and what it did
    prev,              \* the call before it
    scenario,          \* progress through construct-empty / write-any / delete-0
    frame,             \* a LibN64::Frame and the position of its Begin()
    menu,              \* a LibN64::LibMenu
    manager            \* a LibN64::LibMenuManager and the menus it created

vars == <<mempak, pakEntries, pakValidEntries, pakBlocksFree, pakFileName,
          pakEntryData, calls, last, prev, scenario, frame, menu, manager>>

----------------------------------------------------------------------------
(* The storage medium (libdragon mempak calls; spec.md section 6).         *)

\* The record of a slot that holds no note.
EmptyEntry(slot) ==
    [entry_id |-> slot, valid |-> FALSE, name |-> "", blocks |-> 0, region |-> 0]

\* A note that was on the pak before the directory was constructed.
OldEntry(slot) ==
    [entry_id |-> slot, valid |-> TRUE, name |-> "OLD", blocks |-> 2, region |-> 74]

OldData == <<"o1", "o2">>

\* The pak answers read/write requests only when attached and well-formed.
Usable(m) == m.inserted /\ m.ok

\* identify_accessory(controller) == ACCESSORY_MEMPAK
identify_accessory(m) == m.inserted

\* validate_mempak(controller) == 0
validate_mempak(m) == m.inserted /\ m.ok

\* MediumGetEntry(port, slotIndex) -> EntryRecord
get_mempak_entry(m, slot) ==
    IF Usable(m) /\ slot \in Slots THEN m.notes[slot] ELSE EmptyEntry(slot)

RECURSIVE UsedBlocks(_, _)
UsedBlocks(m, n) ==
    IF n = 0 THEN 0
    ELSE UsedBlocks(m, n - 1)
         + (IF m.notes[n - 1].valid THEN m.notes[n - 1].blocks ELSE 0)

\* MediumFreeBlocks(port) -> int
get_mempak_free_space(m) ==
    IF Usable(m) THEN MEMPAK_TOTAL_BLOCKS - UsedBlocks(m, MEMPAK_MAX_ENTRIES) ELSE 0

\* MediumReadPayload(port, EntryRecord) -> bytes: entry.blocks blocks of
\* the slot the record names; blocks the slot never stored read as garbage.
read_mempak_entry_data(m, entry) ==
    IF Usable(m) /\ entry.entry_id \in Slots
    THEN [i \in 1 .. entry.blocks |->
             IF i <= Len(m.data[entry.entry_id]) THEN m.data[entry.entry_id][i]
             ELSE "garbage"]
    ELSE NoData

\* MediumWritePayload(port, EntryRecord, bytes): the note of the slot the
\* record names becomes live with the record's name, block count and
\* region, and the slot's payload becomes the first entry.blocks blocks.
write_mempak_entry_data(m, entry, pakdata) ==
    IF Usable(m) /\ entry.entry_id \in Slots
    THEN [m EXCEPT !.notes[entry.entry_id] =
                       [entry_id |-> entry.entry_id, valid |-> TRUE,
                        name |-> entry.name, blocks |-> entry.blocks,
                        region |-> entry.region],
                   !.data[entry.entry_id] = SubSeq(pakdata, 1, entry.blocks)]
    ELSE m

\* MediumDeleteEntry(port, EntryRecord): the slot's note is blanked; the
\* blocks it occupied keep their (now meaningless) bytes.
delete_mempak_entry(m, entry) ==
    IF Usable(m) /\ entry.entry_id \in Slots
    THEN [m EXCEPT !.notes[entry.entry_id] = EmptyEntry(entry.entry_id)]
    ELSE m

\* MediumFormat(port): an attached pak gets a fresh, well-formed, empty
\* directory.
format_mempak(m) ==
    IF m.inserted
    THEN [m EXCEPT !.ok = TRUE,
                   !.notes = [s \in Slots |-> EmptyEntry(s)]]
    ELSE m

----------------------------------------------------------------------------
(* LibMemPak                                                               *)

\* The entries _ReadPakEntries fetches for spots 0 .. n-1, in order.
RECURSIVE FetchedEntries(_, _)
FetchedEntries(m, n) ==
    IF n = 0 THEN <<>>
    ELSE Append(FetchedEntries(m, n - 1), get_mempak_entry(m, n - 1))

CountValid(entries) ==
    Cardinality({i \in 1 .. Len(entries) : entries[i].valid})

\* _ReadPakEntries: `pakEntries.empty()` only tests the vector, so the 16
\* fetched entries are pushed behind whatever it already holds, and
\* pakValidEntries is incremented from whatever it already is.
ReadPakEntries(m, entries, validEntries) ==
    LET fetched == FetchedEntries(m, MEMPAK_MAX_ENTRIES)
    IN  [pakEntries      |-> entries \o fetched,
         pakValidEntries |-> validEntries + CountValid(fetched),
         pakBlocksFree   |-> get_mempak_free_space(m)]

\* MemPakInserted()
MemPakInserted(m) == identify_accessory(m)

\* IsValid(): flows off the end without a return value when no pak is
\* inserted; it is only called behind MemPakInserted() here.
IsValid(m) == validate_mempak(m)

\* pakEntries.at(entryID) throws std::out_of_range.
AtThrows(entries, entryID) == entryID < 0 \/ entryID >= Len(entries)

\* GetEntryStructure(entryID)
GetEntryStructure(entryID) == pakEntries[entryID + 1]

\* GetValidEntries()
GetValidEntries == pakValidEntries

\* GetBlocksFree()
GetBlocksFree == pakBlocksFree

NoCall == [op |-> "none", id |-> -1, data |-> NoData,
           slotWasValid |-> FALSE, usable |-> FALSE]

\* What the next call remembers of the call that just returned.
Summary(l) ==
    [op |-> l.op, id |-> l.id, data |-> l.data,
     slotWasValid |-> (l.id \in Slots /\ l.pre.notes[l.id].valid),
     usable |-> Usable(l.pre)]

Call(op, id, data, result, threw, refreshed, writes, erases, entryReads, payloadReads) ==
    [op |-> op, id |-> id, data |-> data, result |-> result, threw |-> threw,
     refreshed |-> refreshed, writes |-> writes, erases |-> erases,
     entryReads |-> entryReads, payloadReads |-> payloadReads, pre |-> mempak]

InitMempak(inserted, validSet) ==
    [inserted |-> inserted, ok |-> TRUE,
     notes |-> [s \in Slots |-> IF s \in validSet THEN OldEntry(s) ELSE EmptyEntry(s)],
     data  |-> [s \in Slots |-> IF s \in validSet THEN OldData ELSE NoData]]

\* LibMemPak(entryfilename, controller): the members as the constructor
\* leaves them, _ReadPakEntries included.
LibMemPak(inserted, validSet, garbage, fname) ==
    LET m == InitMempak(inserted, validSet)
        r == ReadPakEntries(m, <<>>, garbage)
    IN  /\ mempak = m
        /\ pakEntries = r.pakEntries
        /\ pakValidEntries = r.pakValidEntries
        /\ pakBlocksFree = r.pakBlocksFree
        /\ pakFileName = fname
        /\ pakEntryData = <<"uninitialised">>
        /\ calls = 0
        /\ last = [op |-> "LibMemPak", id |-> -1, data |-> NoData,
                   result |-> Null, threw |-> FALSE, refreshed |-> TRUE,
                   writes |-> <<>>, erases |-> <<>>, entryReads |-> <<>>,
                   payloadReads |-> <<>>, pre |-> m]
        /\ prev = NoCall
        /\ scenario = IF Usable(m) /\ validSet = {} THEN "constructed_empty"
                      ELSE "none"

(* LibN64::Frame and LibN64::LibMenu objects as their constructors leave   *)
(* them.                                                                   *)
\* enum KeyState { KeysHeld, KeysDown, KeysPressed, KeysUp }
KeyStates == {"KeysHeld", "KeysDown", "KeysPressed", "KeysUp"}

\* controller_data of controller 0: its error flag and the buttons set.
NoKeys == [err |-> FALSE, pressed |-> {}]

\* A Frame on which Begin() has not been called. iteration counts the loop
\* iterations entered; closedIn is the iteration in which Close() was first
\* called (0 before the loop, -1 never), updatedIn the one of the latest
\* FrameUpdate; log lists the callbacks of the iteration in progress.
FrameObject(ctor, bActive, kstate) ==
    [ctor |-> ctor, pc |-> "constructed", bActive |-> bActive, kstate |-> kstate,
     keys |-> NoKeys, report |-> NoKeys, key |-> 1,
     iteration |-> 0, closedIn |-> -1, updatedIn |-> 0, created |-> 0,
     createdBeforeUpdate |-> TRUE, log |-> <<>>]

\* What a LibMenu call leaves for the next state to look at.
MenuCall(op, selection, bInFocus, showing, invoked, marked, threw) ==
    [op |-> op, selection |-> selection, bInFocus |-> bInFocus,
     showing |-> showing, invoked |-> invoked, marked |-> marked, threw |-> threw]

\* LibMenu(i, t, p, f, b): no items, showing; mMenuItemCount,
\* mMenuItemSelection, mMenuItemsSelected and bInFocus are whatever the
\* storage held. The selection is kept in steps of 0.02 (1/SelectionUnit).
MenuObject(count, selection, bInFocus, selected) ==
    [mMenuItemCount |-> count, mMenuItemSelection |-> selection,
     mMenuItems |-> <<>>, mMenuItemCallbacks |-> <<>>,
     mMenuItemsSelected |-> selected, bMenuIsShowing |-> TRUE,
     bInFocus |-> bInFocus, startedAt |-> selection,
     call |-> MenuCall("LibMenu", selection, bInFocus, TRUE, <<>>, {}, FALSE)]

\* A LibMenuManager that has created no menu. calls counts the calls made
\* through it; call is the last of them, with the menu it was made on (0:
\* on the manager itself).
ManagerObject == [menuList |-> <<>>, calls |-> 0, call |-> [op |-> "LibMenuManager", menu |-> 0]]

\* A directory under study; the frame and the menu stay as constructed.
Init ==
    \E inserted \in BOOLEAN, validSet \in InitValidSets,
       garbage \in UninitInts, fname \in FileNames :
        /\ LibMemPak(inserted, validSet, garbage, fname)
        /\ frame = FrameObject("Frame(res, dep, aa, ui)", TRUE, "KeysHeld")
        /\ menu = MenuObject(0, 0, FALSE, {})
        /\ manager = ManagerObject

----------------------------------------------------------------------------
(* The operations. Each *Effect operator computes what the member function *)
(* does to the pak and to the members; the action of the same name as the  *)
(* member function applies it.                                             *)

\* ReadMemPakEntry deciding on the cached entry instead of a fresh one.
ReadOutcomeFromCache(m, entryID) ==
    IF MemPakInserted(m) /\ IsValid(m)
    THEN LET tmp == pakEntries[entryID + 1]
         IN  IF tmp.valid
             THEN [result |-> Buffer(read_mempak_entry_data(m, tmp)),
                   entryReads |-> <<>>, payloadReads |-> <<tmp.entry_id>>]
             ELSE [result |-> Null, entryReads |-> <<>>, payloadReads |-> <<>>]
    ELSE [result |-> Null, entryReads |-> <<>>, payloadReads |-> <<>>]

\* ReadMemPakEntry gated on MemPakInserted() alone, IsValid() left out.
ReadOutcomeNoValidate(m, entryID) ==
    IF MemPakInserted(m)
    THEN LET tmp == get_mempak_entry(m, entryID)
         IN  IF tmp.valid
             THEN [result |-> Buffer(read_mempak_entry_data(m, tmp)),
                   entryReads |-> <<entryID>>, payloadReads |-> <<tmp.entry_id>>]
             ELSE [result |-> Null,
                   entryReads |-> <<entryID>>, payloadReads |-> <<>>]
    ELSE [result |-> Null, entryReads |-> <<>>, payloadReads |-> <<>>]

\* ReadMemPakEntry: the result, and the requests it makes of the pak.
ReadOutcome(m, entryID) ==
    IF MemPakInserted(m) /\ IsValid(m)
    THEN LET tmp == get_mempak_entry(m, entryID)
         IN  IF tmp.valid
             THEN [result |-> Buffer(read_mempak_entry_data(m, tmp)),
                   entryReads |-> <<entryID>>, payloadReads |-> <<tmp.entry_id>>]
             ELSE [result |-> Null,
                   entryReads |-> <<entryID>>, payloadReads |-> <<>>]
    ELSE [result |-> Null, entryReads |-> <<>>, payloadReads |-> <<>>]

Unchanged(threw) ==
    [threw |-> threw, refreshed |-> FALSE, mempak |-> mempak,
     pakEntries |-> pakEntries, pakValidEntries |-> pakValidEntries,
     pakBlocksFree |-> pakBlocksFree, writes |-> <<>>, erases |-> <<>>]

Refreshed(m, entries, writes, erases) ==
    LET r == ReadPakEntries(m, entries, pakValidEntries)
    IN  [threw |-> FALSE, refreshed |-> TRUE, mempak |-> m,
         pakEntries |-> r.pakEntries, pakValidEntries |-> r.pakValidEntries,
         pakBlocksFree |-> r.pakBlocksFree, writes |-> writes, erases |-> erases]

\* DeleteMemPakEntry
DeleteEffect(entryID) ==
    IF AtThrows(pakEntries, entryID) THEN Unchanged(TRUE)
    ELSE LET entry == pakEntries[entryID + 1]
         IN  IF entry.valid
             THEN Refreshed(delete_mempak_entry(mempak, entry), pakEntries,
                            <<>>, <<entry.entry_id>>)
             ELSE Refreshed(mempak, pakEntries, <<>>, <<>>)

\* The stamping with `entry.blocks = 1` left out.
StampedKeepingBlocks(entry) ==
    [entry EXCEPT !.name = pakFileName, !.region = 69]

\* The metadata both write calls put on the entry they write.
Stamped(entry) ==
    [entry EXCEPT !.name = pakFileName, !.blocks = 1, !.region = 69]

\* WriteMemPakEntry: works on a copy of pakEntries.at(entryID).
WriteEffect(entryID, pakdata) ==
    IF AtThrows(pakEntries, entryID) THEN Unchanged(TRUE)
    ELSE LET entry == pakEntries[entryID + 1]
         IN  IF ~entry.valid
             THEN Refreshed(write_mempak_entry_data(mempak, Stamped(entry), pakdata),
                            pakEntries, <<entry.entry_id>>, <<>>)
             ELSE Unchanged(FALSE)

\* Positions (1-based) of the vector elements WriteAnyMemPakEntry may pick.
InvalidPositions(entries) == {i \in 1 .. Len(entries) : ~entries[i].valid}

Min(S) == CHOOSE x \in S : \A y \in S : x <= y

\* WriteAnyMemPakEntry: stamps the first vector element that is not valid,
\* in place, and writes it.
WriteAnyEffect(pakdata) ==
    IF InvalidPositions(pakEntries) = {}
    THEN Refreshed(mempak, pakEntries, <<>>, <<>>)
    ELSE LET i == Min(InvalidPositions(pakEntries))
             entry == Stamped(pakEntries[i])
         IN  Refreshed(write_mempak_entry_data(mempak, entry, pakdata),
                       [pakEntries EXCEPT ![i] = entry],
                       <<entry.entry_id>>, <<>>)

Apply(op, id, data, e) ==
    /\ calls < MaxCalls
    /\ mempak' = e.mempak
    /\ pakEntries' = e.pakEntries
    /\ pakValidEntries' = e.pakValidEntries
    /\ pakBlocksFree' = e.pakBlocksFree
    /\ calls' = calls + 1
    /\ last' = Call(op, id, data, Null, e.threw, e.refreshed,
                    e.writes, e.erases, <<>>, <<>>)
    /\ prev' = Summary(last)
    /\ UNCHANGED <<pakFileName, pakEntryData, frame, menu, manager>>

ReadMemPakEntry(entryID) ==
    LET o == ReadOutcome(mempak, entryID)
    IN  /\ calls < MaxCalls
        /\ calls' = calls + 1
        /\ pakEntryData' = IF o.payloadReads # <<>> THEN o.result.blocks
                           ELSE pakEntryData
        /\ last' = Call("ReadMemPakEntry", entryID, NoData, o.result, FALSE, FALSE,
                        <<>>, <<>>, o.entryReads, o.payloadReads)
        /\ prev' = Summary(last)
        /\ scenario' = "none"
        /\ UNCHANGED <<mempak, pakEntries, pakValidEntries, pakBlocksFree,
                       pakFileName, frame, menu, manager>>

\* FindFirstEntryWith: the outcomes of the scan of pakEntries. A match
\* returns its (0-based) position; without a match the function flows off
\* its end and the caller gets an indeterminate int.
FindOutcomes(entryname) ==
    LET hits == {i \in 1 .. Len(pakEntries) : pakEntries[i].name = entryname}
    IN  IF hits # {}
        THEN {[returned |-> TRUE, index |-> Min(hits) - 1]}
        ELSE {[returned |-> FALSE, index |-> g] : g \in FallOffInts}

FindFirstEntryWith(entryname) ==
    \E o \in FindOutcomes(entryname) :
        /\ calls < MaxCalls
        /\ calls' = calls + 1
        /\ last' = Call("FindFirstEntryWith", -1, <<entryname>>, o, FALSE, FALSE,
                        <<>>, <<>>, <<>>, <<>>)
        /\ prev' = Summary(last)
        /\ scenario' = "none"
        /\ UNCHANGED <<mempak, pakEntries, pakValidEntries, pakBlocksFree,
                       pakFileName, pakEntryData, frame, menu, manager>>

DeleteMemPakEntry(entryID) ==
    /\ Apply("DeleteMemPakEntry", entryID, NoData, DeleteEffect(entryID))
    /\ scenario' = IF scenario = "wrote_any" /\ entryID = 0 THEN "deleted_0"
                   ELSE "none"

WriteMemPakEntry(entryID, pakdata) ==
    /\ Apply("WriteMemPakEntry", entryID, pakdata, WriteEffect(entryID, pakdata))
    /\ scenario' = "none"

WriteAnyMemPakEntry(pakdata) ==
    /\ Apply("WriteAnyMemPakEntry", -1, pakdata, WriteAnyEffect(pakdata))
    /\ scenario' = IF scenario = "constructed_empty" THEN "wrote_any" ELSE "none"

\* FormatMemPak followed by a _ReadPakEntries, as the other mutators do.
FormatEffectRefreshing == Refreshed(format_mempak(mempak), pakEntries, <<>>, <<>>)

\* FormatMemPak: formats the pak and leaves the members alone.
FormatEffect == [Unchanged(FALSE) EXCEPT !.mempak = format_mempak(mempak)]

FormatMemPak ==
    /\ Apply("FormatMemPak", -1, NoData, FormatEffect)
    /\ scenario' = "none"

(* The player's hands: the pak is pulled, pushed back in, or its directory *)
(* is damaged.                                                             *)
Environment(op, m) ==
    /\ Apply(op, -1, NoData, [Unchanged(FALSE) EXCEPT !.mempak = m])
    /\ scenario' = "none"

RemovePak ==
    /\ mempak.inserted
    /\ Environment("RemovePak", [mempak EXCEPT !.inserted = FALSE])

InsertPak ==
    /\ ~mempak.inserted
    /\ Environment("InsertPak", [mempak EXCEPT !.inserted = TRUE])

CorruptPak ==
    /\ mempak.inserted /\ mempak.ok
    /\ Environment("CorruptPak", [mempak EXCEPT !.ok = FALSE])

Next ==
    \/ \E entryID \in ReadIDs : ReadMemPakEntry(entryID)
    \/ \E entryID \in EntryIDs : DeleteMemPakEntry(entryID)
    \/ \E entryID \in EntryIDs, pakdata \in Payloads : WriteMemPakEntry(entryID, pakdata)
    \/ \E pakdata \in Payloads : WriteAnyMemPakEntry(pakdata)
    \/ \E entryname \in LookupNames : FindFirstEntryWith(entryname)
    \/ FormatMemPak
    \/ RemovePak
    \/ InsertPak
    \/ CorruptPak

Spec == Init /\ [][Next]_vars

----------------------------------------------------------------------------
(* LibN64::Frame: Begin() and its loop, one action per call Begin() makes  *)
(* of the virtual callbacks. The calls of the display, timer and console   *)
(* between them touch no member the loop looks at.                         *)

\* Bound: loop iterations Begin() is followed through.
MaxIterations == 2

\* The members Frame() {} leaves uninitialised may hold any value: for
\* kstate one of the enumerators, or a value outside the enumeration.
UninitKeyStates == {"KeysHeld", "KeysUp", "OutOfRange"}

\* The tests of keys.c[0] in the order Begin() makes them, each with the
\* callback it guards.
KeyOrder ==
    << [bit |-> "A", callback |-> "KeyAPressed"],
       [bit |-> "B", callback |-> "KeyBPressed"],
       [bit |-> "up", callback |-> "KeyDUPressed"],
       [bit |-> "down", callback |-> "KeyDDPressed"],
       [bit |-> "left", callback |-> "KeyDLPressed"],
       [bit |-> "right", callback |-> "KeyDRPressed"],
       [bit |-> "Z", callback |-> "KeyZPressed"],
       [bit |-> "start", callback |-> "KeyStartPressed"],
       [bit |-> "C_up", callback |-> "KeyCUPressed"],
       [bit |-> "C_down", callback |-> "KeyCDPressed"],
       [bit |-> "C_left", callback |-> "KeyCLPressed"],
       [bit |-> "C_right", callback |-> "KeyCRPressed"],
       [bit |-> "x", callback |-> "KeyJoyXPressed"],
       [bit |-> "y", callback |-> "KeyJoyYPressed"] >>

KeyCallbacks == {KeyOrder[i].callback : i \in 1 .. Len(KeyOrder)}

\* Buttons controller 0 may report in one scan.
PressedSets == {{}, {"A"}, {"A", "Z"}}

\* What controller 0 may report, and what an uninitialised controller_data
\* may hold.
ControllerData == [err : BOOLEAN, pressed : PressedSets]

\* What the override of a virtual callback may do to the frame: nothing,
\* Close(), or SetKeyState(KeysDown) (as LibMenu::Show does).
UserActs == {"nothing", "Close", "SetKeyState"}

\* Close()
Close(f) ==
    [f EXCEPT !.bActive = FALSE,
              !.closedIn = IF f.closedIn = -1 THEN f.iteration ELSE @]

\* SetKeyState(k)
SetKeyState(f, k) == [f EXCEPT !.kstate = k]

User(f, act) ==
    IF act = "Close" THEN Close(f)
    ELSE IF act = "SetKeyState" THEN SetKeyState(f, "KeysDown")
    ELSE f

\* Begin() calls the callback `name` at position `from` and goes on to `to`.
Callback(from, to, name, act) ==
    /\ frame.pc = from
    /\ frame' = [User(frame, act) EXCEPT !.pc = to, !.log = Append(@, name)]
    /\ UNCHANGED <<mempak, pakEntries, pakValidEntries, pakBlocksFree, pakFileName,
                   pakEntryData, calls, last, prev, scenario, menu, manager>>

\* Begin() is called: display_show, then on to OnCreate.
Begin ==
    /\ frame.pc = "constructed"
    /\ frame' = [frame EXCEPT !.pc = "OnCreate"]
    /\ UNCHANGED <<mempak, pakEntries, pakValidEntries, pakBlocksFree, pakFileName,
                   pakEntryData, calls, last, prev, scenario, menu, manager>>

OnCreate(act) ==
    /\ frame.pc = "OnCreate"
    /\ frame' = [User(frame, act) EXCEPT !.pc = "OnInit1", !.created = @ + 1,
                                         !.log = Append(@, "OnCreate")]
    /\ UNCHANGED <<mempak, pakEntries, pakValidEntries, pakBlocksFree, pakFileName,
                   pakEntryData, calls, last, prev, scenario, menu, manager>>

OnInit_FreeFunction1(act) == Callback("OnInit1", "OnInit2", "__OnInit_FreeFunction1", act)

OnInit_FreeFunction2(act) == Callback("OnInit2", "while", "__OnInit_FreeFunction2", act)

\* while (bActive): the next iteration is entered, or Begin() returns.
WhileActive ==
    /\ frame.pc = "while"
    /\ frame.bActive => frame.iteration < MaxIterations
    /\ frame' = IF frame.bActive
                THEN [frame EXCEPT !.pc = "OnLoop1", !.iteration = @ + 1,
                                   !.log = <<>>]
                ELSE [frame EXCEPT !.pc = "returned"]
    /\ UNCHANGED <<mempak, pakEntries, pakValidEntries, pakBlocksFree, pakFileName,
                   pakEntryData, calls, last, prev, scenario, menu, manager>>

OnLoop_FreeFunction1(act) == Callback("OnLoop1", "FrameUpdate", "__OnLoop_FreeFunction1", act)

FrameUpdate(act) ==
    /\ frame.pc = "FrameUpdate"
    /\ frame' = [User(frame, act) EXCEPT !.pc = "scan",
                                         !.updatedIn = frame.iteration,
                                         !.createdBeforeUpdate = (frame.created > 0),
                                         !.log = Append(@, "FrameUpdate")]
    /\ UNCHANGED <<mempak, pakEntries, pakValidEntries, pakBlocksFree, pakFileName,
                   pakEntryData, calls, last, prev, scenario, menu, manager>>

\* controller_scan() and the switch on kstate: each of the four cases
\* assigns keys from what the controllers report; any other value of kstate
\* leaves the local `keys` uninitialised.
ControllerScan ==
    \E report \in ControllerData, garbage \in ControllerData :
        /\ frame.pc = "scan"
        /\ frame' = [frame EXCEPT !.pc = "keys", !.report = report, !.key = 1,
                                  !.keys = IF frame.kstate \in KeyStates THEN report
                                           ELSE garbage]
        /\ UNCHANGED <<mempak, pakEntries, pakValidEntries, pakBlocksFree,
                       pakFileName, pakEntryData, calls, last, prev, scenario, menu, manager>>

\* The positions of KeyOrder, from frame.key on, whose test is still to
\* succeed: none unless keys.c[0].err == ERROR_NONE.
PendingKeys(f) ==
    IF f.keys.err THEN {}
    ELSE {i \in f.key .. Len(KeyOrder) : KeyOrder[i].bit \in f.keys.pressed}

\* The next callback of a button that is set.
KeyPressed(act) ==
    /\ frame.pc = "keys"
    /\ PendingKeys(frame) # {}
    /\ LET i == Min(PendingKeys(frame))
       IN  frame' = [User(frame, act) EXCEPT !.key = i + 1,
                                            !.log = Append(@, KeyOrder[i].callback)]
    /\ UNCHANGED <<mempak, pakEntries, pakValidEntries, pakBlocksFree, pakFileName,
                   pakEntryData, calls, last, prev, scenario, menu, manager>>

\* No test is left to succeed: on to the end of the iteration.
KeysDone ==
    /\ frame.pc = "keys"
    /\ PendingKeys(frame) = {}
    /\ frame' = [frame EXCEPT !.pc = "OnLoop2"]
    /\ UNCHANGED <<mempak, pakEntries, pakValidEntries, pakBlocksFree, pakFileName,
                   pakEntryData, calls, last, prev, scenario, menu, manager>>

OnLoop_FreeFunction2(act) == Callback("OnLoop2", "while", "__OnLoop_FreeFunction2", act)

\* A frame built by either constructor; the directory and the menu stay as
\* constructed.
FrameInit ==
    /\ \/ frame = FrameObject("Frame(res, dep, aa, ui)", TRUE, "KeysHeld")
       \/ \E bActive \in BOOLEAN, kstate \in UninitKeyStates :
              frame = FrameObject("Frame()", bActive, kstate)
    /\ LibMemPak(FALSE, {}, 0, "HELLO")
    /\ menu = MenuObject(0, 0, FALSE, {})
    /\ manager = ManagerObject

FrameNext ==
    \/ Begin
    \/ \E act \in UserActs : OnCreate(act)
    \/ \E act \in UserActs : OnInit_FreeFunction1(act)
    \/ \E act \in UserActs : OnInit_FreeFunction2(act)
    \/ WhileActive
    \/ \E act \in UserActs : OnLoop_FreeFunction1(act)
    \/ \E act \in UserActs : FrameUpdate(act)
    \/ ControllerScan
    \/ \E act \in UserActs : KeyPressed(act)
    \/ KeysDone
    \/ \E act \in UserActs : OnLoop_FreeFunction2(act)

SpecFrame == FrameInit /\ [][FrameNext]_vars

----------------------------------------------------------------------------
(* LibN64::LibMenu: one action per member function. mMenuItems (a std::map *)
(* keyed by item id) is the sequence of its elements in key order, a       *)
(* callback is the number of the AddMenuItem call that registered it.      *)

\* Bound: AddMenuItem calls made on a menu.
MaxItems == 2

\* mMenuItemSelection is a float moved in steps of 0.02 or 1: it is kept
\* here as a whole number of steps of 0.02, SelectionUnit of them to an item.
SelectionUnit == 50

\* std::array<bool, 27> mMenuItemsSelected
MenuItemsSelectedSize == 27

\* Item ids handed to AddMenuItem.
ItemIds == {1, 2}

\* The key state the program sets on the frame to make a move step by 0.02
\* (Show sets KeysDown, which makes it step by 1).
MenuKeyStates == {"KeysHeld"}

\* What the members the constructor leaves uninitialised may hold:
\* mMenuItemCount, mMenuItemSelection (in steps of 0.02) and the set of
\* positions of mMenuItemsSelected that are true.
UninitCounts == {0, 1}

UninitSelections == {0, 75}

UninitSelected == {{}, {0}}

\* mMenuItems[mId] = content
PutItem(items, mId, content) ==
    LET Before(e) == e.id < mId
        After(e) == e.id > mId
    IN  SelectSeq(items, Before) \o <<[id |-> mId, content |-> content]>>
            \o SelectSeq(items, After)

\* The amount a move changes the selection by, for the frame's key state.
SelectionStep(kstate) ==
    IF kstate \in {"KeysHeld", "KeysPressed"} THEN 1 ELSE SelectionUnit

\* The position a float selection indexes (conversion to an integer).
SelectionIndex(selection) == selection \div SelectionUnit

\* The menu `after` a call of `op` made on the menu `before`: the call is
\* remembered with the selection, focus and visibility it found, the
\* callbacks it invoked and the positions of mMenuItemsSelected it set.
Outcome(before, after, op, invoked, threw) ==
    [after EXCEPT !.call = MenuCall(op, before.mMenuItemSelection, before.bInFocus,
                                    before.bMenuIsShowing, invoked,
                                    after.mMenuItemsSelected \ before.mMenuItemsSelected,
                                    threw)]

Returned(m, op, invoked, threw) == Outcome(menu, m, op, invoked, threw)

MenuStep(m) ==
    /\ menu' = m
    /\ UNCHANGED <<mempak, pakEntries, pakValidEntries, pakBlocksFree, pakFileName,
                   pakEntryData, calls, last, prev, scenario, frame, manager>>

\* AddMenuItem(mId, content, call) on the menu m.
AddMenuItemEffect(m, mId) ==
    LET n == Len(m.mMenuItemCallbacks) + 1
    IN  Outcome(m, [m EXCEPT !.mMenuItems = PutItem(@, mId, n),
                             !.mMenuItemCallbacks = Append(@, n),
                             !.mMenuItemCount = @ + 1],
                "AddMenuItem", <<>>, FALSE)

AddMenuItem(mId) ==
    /\ Len(menu.mMenuItemCallbacks) < MaxItems
    /\ MenuStep(AddMenuItemEffect(menu, mId))

\* MoveSelectionUp(r) on the menu m, r.kstate being kstate.
MoveSelectionUpEffect(m, kstate) ==
    Outcome(m, [m EXCEPT !.mMenuItemsSelected = {},
                         !.mMenuItemSelection =
                             IF /\ m.mMenuItemSelection - SelectionUnit >= 0
                                /\ m.bInFocus /\ m.bMenuIsShowing
                             THEN @ - SelectionStep(kstate) ELSE @],
            "MoveSelectionUp", <<>>, FALSE)

MoveSelectionUp == MenuStep(MoveSelectionUpEffect(menu, frame.kstate))

\* MoveSelectionDown(r) on the menu m, r.kstate being kstate.
MoveSelectionDownEffect(m, kstate) ==
    Outcome(m, [m EXCEPT !.mMenuItemsSelected = {},
                         !.mMenuItemSelection =
                             IF /\ m.mMenuItemSelection + SelectionUnit
                                      < m.mMenuItemCount * SelectionUnit
                                /\ m.bInFocus /\ m.bMenuIsShowing
                             THEN @ + SelectionStep(kstate) ELSE @],
            "MoveSelectionDown", <<>>, FALSE)

MoveSelectionDown == MenuStep(MoveSelectionDownEffect(menu, frame.kstate))

\* WaitKeyPress on the menu m: at() throws std::out_of_range past the end of
\* the array, and then past the end of the vector.
WaitKeyPressEffect(m) ==
    LET i == SelectionIndex(m.mMenuItemSelection)
    IN  IF ~m.bInFocus THEN Outcome(m, m, "WaitKeyPress", <<>>, FALSE)
        ELSE IF i >= MenuItemsSelectedSize
             THEN Outcome(m, m, "WaitKeyPress", <<>>, TRUE)
        ELSE IF i >= Len(m.mMenuItemCallbacks)
             THEN Outcome(m, [m EXCEPT !.mMenuItemsSelected = @ \cup {i}],
                          "WaitKeyPress", <<>>, TRUE)
        ELSE Outcome(m, [m EXCEPT !.mMenuItemsSelected = @ \cup {i}],
                     "WaitKeyPress", <<m.mMenuItemCallbacks[i + 1]>>, FALSE)

WaitKeyPress == MenuStep(WaitKeyPressEffect(menu))

SetFocusedEffect(m) ==
    Outcome(m, [m EXCEPT !.bInFocus = TRUE], "SetFocused", <<>>, FALSE)

SetFocused == MenuStep(SetFocusedEffect(menu))

SetUnfocusedEffect(m) ==
    Outcome(m, [m EXCEPT !.bInFocus = FALSE], "SetUnfocused", <<>>, FALSE)

SetUnfocused == MenuStep(SetUnfocusedEffect(menu))

\* Hide: bMenuIsShowing = false; SetUnfocused();
HideEffect(m) ==
    Outcome(m, [m EXCEPT !.bMenuIsShowing = FALSE, !.bInFocus = FALSE],
            "Hide", <<>>, FALSE)

Hide == MenuStep(HideEffect(menu))

EnableShowEffect(m) ==
    Outcome(m, [m EXCEPT !.bMenuIsShowing = TRUE], "EnableShow", <<>>, FALSE)

EnableShow == MenuStep(EnableShowEffect(menu))

\* The items Show draws highlighted: when the menu is showing and in
\* focus, the element of mMenuItems, taken in key order, whose position is
\* (int)mMenuItemSelection.
Highlighted(m) ==
    IF m.bMenuIsShowing /\ m.bInFocus
    THEN {m.mMenuItems[spot + 1] : spot \in {t \in 0 .. (Len(m.mMenuItems) - 1) :
                                                SelectionIndex(m.mMenuItemSelection) = t}}
    ELSE {}

\* Show(lFrame): sets the frame's key state, then draws.
Show ==
    /\ menu' = Returned(menu, "Show", <<>>, FALSE)
    /\ frame' = SetKeyState(frame, "KeysDown")
    /\ UNCHANGED <<mempak, pakEntries, pakValidEntries, pakBlocksFree, pakFileName,
                   pakEntryData, calls, last, prev, scenario, manager>>

\* The program sets the key state of the frame the menu is shown on.
FrameSetKeyState(k) ==
    /\ frame' = SetKeyState(frame, k)
    /\ UNCHANGED <<mempak, pakEntries, pakValidEntries, pakBlocksFree, pakFileName,
                   pakEntryData, calls, last, prev, scenario, menu, manager>>

\* A menu as constructed, on a frame built by the four-argument
\* constructor; the directory stays as constructed.
MenuInit ==
    /\ \E count \in UninitCounts, selection \in UninitSelections,
          bInFocus \in BOOLEAN, selected \in UninitSelected :
            menu = MenuObject(count, selection, bInFocus, selected)
    /\ frame = FrameObject("Frame(res, dep, aa, ui)", TRUE, "KeysHeld")
    /\ LibMemPak(FALSE, {}, 0, "HELLO")
    /\ manager = ManagerObject

MenuNext ==
    \/ \E mId \in ItemIds : AddMenuItem(mId)
    \/ MoveSelectionUp
    \/ MoveSelectionDown
    \/ WaitKeyPress
    \/ SetFocused
    \/ SetUnfocused
    \/ Hide
    \/ EnableShow
    \/ Show
    \/ \E k \in MenuKeyStates : FrameSetKeyState(k)

SpecMenu == MenuInit /\ [][MenuNext]_vars

----------------------------------------------------------------------------
(* LibN64::LibMenuManager: the menus it created are reached by their       *)
(* position in menuList, which is what operator[] yields for the id a menu *)
(* was added under.                                                        *)

\* Bound: menus a manager creates.
MaxMenus == 2

\* Bound: calls made on a manager and on its menus.
MaxManagerCalls == 5

\* AllMenusClosed()
AllMenusClosed(menuList) ==
    \A i \in 1 .. Len(menuList) :
        ~(menuList[i].bMenuIsShowing \/ menuList[i].bInFocus)

\* A call of `op` that leaves the manager with menuList, made on its menu
\* number i or (i = 0) on the manager.
ManagerStep(menuList, op, i) ==
    /\ manager.calls < MaxManagerCalls
    /\ manager' = [menuList |-> menuList, calls |-> manager.calls + 1,
                   call |-> [op |-> op, menu |-> i]]
    /\ UNCHANGED <<mempak, pakEntries, pakValidEntries, pakBlocksFree, pakFileName,
                   pakEntryData, calls, last, prev, scenario, frame, menu>>

\* AddMenu(i, t, p, f, b): a new LibMenu at the end of menuList.
AddMenu ==
    /\ Len(manager.menuList) < MaxMenus
    /\ \E count \in UninitCounts, selection \in UninitSelections,
          bInFocus \in BOOLEAN, selected \in UninitSelected :
            ManagerStep(Append(manager.menuList,
                               MenuObject(count, selection, bInFocus, selected)),
                        "AddMenu", 0)

\* manager[id]->...: a member function of menu number i leaves it as `after`.
OnMenu(i, after) ==
    ManagerStep([manager.menuList EXCEPT ![i] = after], after.call.op, i)

\* CloseFocusedMenus()
CloseFocusedMenus ==
    ManagerStep([i \in 1 .. Len(manager.menuList) |->
                    IF manager.menuList[i].bInFocus
                    THEN HideEffect(manager.menuList[i]) ELSE manager.menuList[i]],
                "CloseFocusedMenus", 0)

\* CloseAllMenus()
CloseAllMenus ==
    ManagerStep([i \in 1 .. Len(manager.menuList) |-> HideEffect(manager.menuList[i])],
                "CloseAllMenus", 0)

\* A manager as constructed; the directory, the frame and the single menu
\* stay as constructed.
ManagerInit ==
    /\ manager = ManagerObject
    /\ menu = MenuObject(0, 0, FALSE, {})
    /\ frame = FrameObject("Frame(res, dep, aa, ui)", TRUE, "KeysHeld")
    /\ LibMemPak(FALSE, {}, 0, "HELLO")

ManagerNext ==
    \/ AddMenu
    \/ \E i \in 1 .. Len(manager.menuList), mId \in ItemIds :
          /\ Len(manager.menuList[i].mMenuItemCallbacks) < MaxItems
          /\ OnMenu(i, AddMenuItemEffect(manager.menuList[i], mId))
    \/ \E i \in 1 .. Len(manager.menuList) :
          OnMenu(i, MoveSelectionUpEffect(manager.menuList[i], frame.kstate))
    \/ \E i \in 1 .. Len(manager.menuList) :
          OnMenu(i, MoveSelectionDownEffect(manager.menuList[i], frame.kstate))
    \/ \E i \in 1 .. Len(manager.menuList) :
          OnMenu(i, WaitKeyPressEffect(manager.menuList[i]))
    \/ \E i \in 1 .. Len(manager.menuList) :
          OnMenu(i, SetFocusedEffect(manager.menuList[i]))
    \/ \E i \in 1 .. Len(manager.menuList) :
          OnMenu(i, SetUnfocusedEffect(manager.menuList[i]))
    \/ \E i \in 1 .. Len(manager.menuList) :
          OnMenu(i, HideEffect(manager.menuList[i]))
    \/ \E i \in 1 .. Len(manager.menuList) :
          OnMenu(i, EnableShowEffect(manager.menuList[i]))
    \/ CloseFocusedMenus
    \/ CloseAllMenus

SpecManager == ManagerInit /\ [][ManagerNext]_vars

----------------------------------------------------------------------------
(* The claims.                                                             *)

\* The slots the pak reports as live.
ValidSlots(m) == {s \in Slots : get_mempak_entry(m, s).valid}

Mutators == {"WriteMemPakEntry", "WriteAnyMemPakEntry", "DeleteMemPakEntry",
             "FormatMemPak"}

\* C1: in every reachable state of the directory the cached entry list
\* holds exactly MEMPAK_MAX_ENTRIES (16) entries.
C1_SixteenEntries == Len(pakEntries) = MEMPAK_MAX_ENTRIES

\* C2: immediately after every refresh (the constructor's and the one of
\* each write, write-any and delete), GetValidEntries() equals the number
\* of slots the pak reports as valid.
C2_ValidCountAfterRefresh ==
    last.refreshed => GetValidEntries = Cardinality(ValidSlots(mempak))

\* C3: after construction and after every mutating call the cache agrees
\* with the pak: every slot's cached entry is the record the pak reports
\* for the slot, carries the slot's index, and the cached free block count
\* is the one the pak reports.
C3_CacheAgreesWithMedium ==
    (last.op \in Mutators \cup {"LibMemPak"} /\ ~last.threw) =>
        /\ \A s \in Slots :
              /\ ~AtThrows(pakEntries, s)
              /\ GetEntryStructure(s) = get_mempak_entry(mempak, s)
              /\ GetEntryStructure(s).entry_id = s
        /\ GetBlocksFree = get_mempak_free_space(mempak)

\* C4: WriteMemPakEntry(K, data) on a slot K that holds a live note on the
\* pak changes neither that slot's record nor its payload.
C4_OccupiedSlotUntouched ==
    (/\ last.op = "WriteMemPakEntry"
     /\ last.id \in Slots
     /\ last.pre.notes[last.id].valid) =>
        /\ mempak.notes[last.id] = last.pre.notes[last.id]
        /\ mempak.data[last.id] = last.pre.data[last.id]

\* C5: WriteAnyMemPakEntry issues at most one write; when some slot is
\* invalid on the pak the write targets the lowest such slot, and when all
\* slots are valid no write is issued.
C5_WriteAnyLowestInvalid ==
    last.op = "WriteAnyMemPakEntry" =>
        LET free == Slots \ ValidSlots(last.pre)
        IN  /\ Len(last.writes) <= 1
            /\ free # {} => last.writes = <<Min(free)>>
            /\ free = {} => last.writes = <<>>

\* C6: once DeleteMemPakEntry(K) has returned for a slot K that was valid
\* before the call, the cached entry of K is not valid.
C6_DeletedSlotCachedInvalid ==
    (/\ last.op = "DeleteMemPakEntry"
     /\ last.id \in Slots
     /\ get_mempak_entry(last.pre, last.id).valid) =>
        ~GetEntryStructure(last.id).valid

\* C7: ReadMemPakEntry(K) on a slot the pak reports as invalid returns
\* nullptr and reads no payload, also when K was valid earlier.
C7_ReadInvalidSlotIsNull ==
    (/\ last.op = "ReadMemPakEntry"
     /\ ~get_mempak_entry(last.pre, last.id).valid) =>
        /\ last.result = Null
        /\ last.payloadReads = <<>>

\* C7 witness: a read of a slot that was live when the directory was
\* constructed (the cache still says so) and has been erased since.
C7_Witness ==
    /\ last.op = "ReadMemPakEntry"
    /\ Usable(last.pre)
    /\ ~last.pre.notes[last.id].valid
    /\ GetEntryStructure(last.id).valid
    /\ last.result = Null

\* C8: ReadMemPakEntry(K) returns nullptr, requests neither an entry record
\* nor a payload and does not throw, whenever no pak is inserted or the
\* inserted pak fails validation.
C8_ReadUnusablePakIsNull ==
    (/\ last.op = "ReadMemPakEntry"
     /\ ~(identify_accessory(last.pre) /\ validate_mempak(last.pre))) =>
        /\ last.result = Null
        /\ last.entryReads = <<>>
        /\ last.payloadReads = <<>>
        /\ ~last.threw

\* C8 witness: a read of a slot holding a live note on a pak that is
\* inserted and fails validation.
C8_Witness ==
    /\ last.op = "ReadMemPakEntry"
    /\ last.pre.inserted /\ ~last.pre.ok
    /\ last.pre.notes[last.id].valid
    /\ last.result = Null

\* C9: on a usable pak, WriteMemPakEntry(K, data) into a slot that was
\* invalid, directly followed by ReadMemPakEntry(K), returns the blocks of
\* data, as many as the entry declares.
C9_RoundTrip ==
    (/\ last.op = "ReadMemPakEntry"
     /\ prev.op = "WriteMemPakEntry"
     /\ prev.id = last.id
     /\ prev.id \in Slots
     /\ ~prev.slotWasValid
     /\ prev.usable
     /\ Usable(last.pre)) =>
        /\ ~last.result.null
        /\ Len(last.result.blocks) >= 1
        /\ Len(last.result.blocks) <= Len(prev.data)
        /\ last.result.blocks = SubSeq(prev.data, 1, Len(last.result.blocks))

\* C10: a directory constructed over an empty pak reports 0 valid entries;
\* after a WriteAnyMemPakEntry it reports 1 and slot 0 of the pak holds a
\* valid entry named pakFileName; after a following DeleteMemPakEntry(0)
\* it reports 0 again.
C10_Scenario ==
    /\ scenario = "constructed_empty" => GetValidEntries = 0
    /\ scenario = "wrote_any" =>
          /\ GetValidEntries = 1
          /\ get_mempak_entry(mempak, 0).valid
          /\ get_mempak_entry(mempak, 0).name = pakFileName
    /\ scenario = "deleted_0" => GetValidEntries = 0

\* C11: FindFirstEntryWith(name) returns the lowest slot whose entry on
\* the pak is named name, and an explicit not-found value (a returned
\* value that is no slot index) when the pak holds no entry of that name.
C11_FindFirstEntry ==
    last.op = "FindFirstEntryWith" =>
        LET named == {s \in Slots : get_mempak_entry(last.pre, s).name = last.data[1]}
        IN  /\ last.result.returned
            /\ named # {} => last.result.index = Min(named)
            /\ named = {} => last.result.index \notin Slots

\* C12: DeleteMemPakEntry and WriteMemPakEntry called with an index outside
\* 0..15 fail with a bounds violation and issue neither an erase nor a
\* write, in every reachable state of the directory.
C12_OutOfRangeRejected ==
    (/\ last.op \in {"DeleteMemPakEntry", "WriteMemPakEntry"}
     /\ last.id \notin Slots) =>
        /\ last.threw
        /\ last.writes = <<>>
        /\ last.erases = <<>>

\* C13: with no pak inserted, or with a pak that fails validation,
\* WriteMemPakEntry and WriteAnyMemPakEntry issue no payload write.
C13_NoWriteToUnusablePak ==
    (/\ last.op \in {"WriteMemPakEntry", "WriteAnyMemPakEntry"}
     /\ ~(identify_accessory(last.pre) /\ validate_mempak(last.pre))) =>
        last.writes = <<>>

\* C14: DeleteMemPakEntry(K) issues an erase exactly when slot K is valid
\* on the pak at the time of the call; on an invalid slot it issues no
\* erase and only refreshes.
C14_EraseIffValid ==
    (/\ last.op = "DeleteMemPakEntry"
     /\ last.id \in Slots) =>
        /\ get_mempak_entry(last.pre, last.id).valid => last.erases = <<last.id>>
        /\ ~get_mempak_entry(last.pre, last.id).valid =>
              (last.erases = <<>> /\ last.refreshed)

\* C15: ReadMemPakEntry(K) decides on the record the pak holds at the time
\* of the call and never on the cached entry: its result is determined by
\* the state of the pak and K alone, so directories over paks in the same
\* state return the same result whatever their caches hold.
C15_ReadDecidesOnMedium ==
    last.op = "ReadMemPakEntry" =>
        last.result =
            IF Usable(last.pre) /\ last.pre.notes[last.id].valid
            THEN Buffer(read_mempak_entry_data(last.pre, last.pre.notes[last.id]))
            ELSE Null

\* C15 witness: a read that returned a payload from a slot the cache still
\* holds as invalid (the slot was written after the cache read it).
C15_Witness ==
    /\ last.op = "ReadMemPakEntry"
    /\ ~GetEntryStructure(last.id).valid
    /\ last.pre.notes[last.id].valid
    /\ ~last.result.null

\* C16: FormatMemPak leaves every slot of an inserted pak invalid and does
\* not refresh: pakEntries, pakValidEntries and pakBlocksFree are what they
\* were before the call.
C16_FormatDoesNotRefresh ==
    [][(last'.op = "FormatMemPak" /\ calls' = calls + 1) =>
          /\ mempak.inserted => \A s \in Slots : ~mempak'.notes[s].valid
          /\ pakEntries' = pakEntries
          /\ pakValidEntries' = pakValidEntries
          /\ pakBlocksFree' = pakBlocksFree]_vars

\* C16 witness: after the format of a pak that held a note in slot 0, the
\* pak's slot 0 is invalid and the cache still reports the old valid entry.
C16_Witness ==
    /\ last.op = "FormatMemPak"
    /\ last.pre.inserted
    /\ last.pre.notes[0].valid
    /\ ~mempak.notes[0].valid
    /\ GetEntryStructure(0).valid
    /\ pakBlocksFree # get_mempak_free_space(mempak)

\* C17: every entry written by WriteMemPakEntry or WriteAnyMemPakEntry
\* carries the name pakFileName, one block and region 0x45, whatever the
\* payload and whatever the slot's record was before.
C17_WrittenMetadata ==
    (/\ last.op \in {"WriteMemPakEntry", "WriteAnyMemPakEntry"}
     /\ last.writes # <<>>
     /\ Usable(last.pre)) =>
        LET written == mempak.notes[last.writes[1]]
        IN  /\ written.valid
            /\ written.name = pakFileName
            /\ written.blocks = 1
            /\ written.region = 69
            /\ Len(mempak.data[last.writes[1]]) = 1

\* C17 witness: a two-block payload written over a slot whose record was a
\* live note with another name, block count and region.
C17_Witness ==
    /\ last.op \in {"WriteMemPakEntry", "WriteAnyMemPakEntry"}
    /\ last.writes # <<>>
    /\ Usable(last.pre)
    /\ last.pre.notes[last.writes[1]] = OldEntry(last.writes[1])
    /\ Len(last.data) = 2
    /\ mempak.notes[last.writes[1]].name = pakFileName

\* How often x occurs in seq.
Count(seq, x) == Cardinality({i \in 1 .. Len(seq) : seq[i] = x})

\* C18: once Close() has been called, Begin() finishes the iteration in
\* progress and returns: the loop condition is false from then on and no
\* FrameUpdate is invoked in a later iteration; and Begin() has not returned
\* while Close() has never been called.
C18_LoopTermination ==
    /\ frame.closedIn # -1 =>
          /\ ~frame.bActive
          /\ frame.iteration <= frame.closedIn
          /\ frame.updatedIn <= frame.closedIn
    /\ frame.pc = "returned" => frame.closedIn # -1

\* C19: Begin() invokes OnCreate exactly once and before the first
\* FrameUpdate; within every loop iteration FrameUpdate is invoked exactly
\* once and before any key callback of the iteration, and key callbacks are
\* invoked only in iterations where controller 0 reports no error.
C19_LoopOrdering ==
    /\ frame.created <= 1
    /\ frame.createdBeforeUpdate
    /\ frame.pc \notin {"constructed", "OnCreate"} => frame.created = 1
    /\ frame.iteration > 0 =>
          /\ Count(frame.log, "FrameUpdate") <= 1
          /\ (frame.pc \in {"scan", "keys", "OnLoop2"}
                 \/ (frame.pc \in {"while", "returned"} /\ frame.log # <<>>))
               => Count(frame.log, "FrameUpdate") = 1
          /\ \A i \in 1 .. Len(frame.log) :
                frame.log[i] \in KeyCallbacks =>
                    /\ \E j \in 1 .. (i - 1) : frame.log[j] = "FrameUpdate"
                    /\ ~frame.report.err

\* C20: for a menu with n >= 1 items (each added under an id of its own)
\* whose selection started at 0, the selection stays within 0 <= selection
\* < n whatever moves were made, so a focused WaitKeyPress reaches the
\* callback of an existing item; and a MoveSelectionUp or MoveSelectionDown
\* made while the menu is unfocused or hidden leaves the selection as it was.
C20_SelectionInRange ==
    LET n == Len(menu.mMenuItems)
    IN  /\ (menu.startedAt = 0 /\ n >= 1 /\ n = Len(menu.mMenuItemCallbacks)) =>
              /\ 0 <= menu.mMenuItemSelection
              /\ menu.mMenuItemSelection < n * SelectionUnit
              /\ (menu.call.op = "WaitKeyPress" /\ menu.call.bInFocus) =>
                    ~menu.call.threw /\ Len(menu.call.invoked) = 1
        /\ (/\ menu.call.op \in {"MoveSelectionUp", "MoveSelectionDown"}
            /\ ~(menu.call.bInFocus /\ menu.call.showing)) =>
              menu.mMenuItemSelection = menu.call.selection

\* C21: whatever the order and the ids the items were added in and under,
\* a WaitKeyPress on a focused menu invokes the callback that was
\* registered together with the item Show highlights, and that one only.
C21_CallbackOfHighlightedItem ==
    (menu.call.op = "WaitKeyPress" /\ menu.call.bInFocus) =>
        \A item \in Highlighted(menu) : menu.call.invoked = <<item.content>>

\* C22: a menu that is not showing (hidden by Hide, CloseAllMenus or
\* CloseFocusedMenus, and no EnableShow since) runs no item callback and
\* marks no item selected when WaitKeyPress is called on it; and right
\* after CloseAllMenus, AllMenusClosed() returns true.
C22_HiddenMenuRunsNothing ==
    /\ \A i \in 1 .. Len(manager.menuList) :
          LET m == manager.menuList[i]
          IN  (m.call.op = "WaitKeyPress" /\ ~m.call.showing) =>
                  m.call.invoked = <<>> /\ m.call.marked = {}
    /\ manager.call.op = "CloseAllMenus" => AllMenusClosed(manager.menuList)
====
